---- MODULE Spec2Model ----
(***************************************************************************)
(* A model of the data-hub cache and access-coordination layer of          *)
(* family-wealth: CacheDatabase (storage/cache_db.py), CacheManager         *)
(* (core/cache_manager.py), DataSourceManager (core/data_source_manager.py),*)
(* MetadataDatabase (storage/metadata_db.py) and DataAccessService          *)
(* (core/data_access_service.py).                                           *)
(*                                                                         *)
(* Time is an integer clock `now`; an ISO timestamp is the integer it       *)
(* denotes.  A Python dict is a sequence of items in insertion order.       *)
(* A Python value is a record [kind, body, t]; serialized bytes are a       *)
(* record [codec, obj].  A cache key is the sequence of the '|'-separated   *)
(* tokens of the key string.                                                *)
(***************************************************************************)
EXTENDS Integers, Sequences, FiniteSets, TLC

VARIABLES
    now,               \* datetime.now()
    memory_cache,      \* CacheManager._memory_cache (insertion-ordered dict)
    cache_entries,     \* table cache_entries of cache.db: key -> row
    cache_access_log,  \* table cache_access_log of cache.db, in rowid order
    uncommitted,       \* rows of cache_access_log inserted since the last commit
    connection_open,   \* CacheDatabase.connection is usable
    last,              \* the last call made and what it returned
    tracked,           \* the key whose history hist follows
    hist,              \* what was last done to the tracked key
    fifo_run,          \* the distinct keys inserted by set, from the empty tier on
    data_sources,      \* DataSourceManager.data_sources: source_id -> DataSourceConfig
    config_file,       \* the 'data_sources' list last written to config_file
    meta_data_sources, \* table data_sources of metadata.db: source_id -> row
    orch,              \* what the last DataAccessService call did on its way, and
                       \* what a get of its key returned before it
    keyq,              \* the last cache keys built, and from what
    memory_cache_B,    \* _memory_cache of a second process on the same cache.db
    stale,             \* the value the second process still holds of a key the
                       \* first process invalidated
    batch_res,         \* the per-key results of the last batch_set_cached_data
    aside,             \* the result a DataAccessService operation cached, while
                       \* its key is neither set nor invalidated by another call
    race,              \* two processes' CacheDatabase calls, statement by
                       \* statement: where each call stands, who holds the
                       \* write transaction, what each call read and returned
    thr                \* two threads' CacheManager calls on one _memory_cache,
                       \* statement by statement

vars == <<now, memory_cache, cache_entries, cache_access_log, uncommitted,
          connection_open, last, tracked, hist, fifo_run,
          data_sources, config_file, meta_data_sources, orch,
          keyq, memory_cache_B, stale, batch_res, aside, race, thr>>
aux_vars == <<keyq, memory_cache_B, stale, batch_res>>
reg_vars == <<data_sources, config_file, meta_data_sources>>

(***************************************************************************)
(* Bounds of the model.                                                     *)
(***************************************************************************)
MaxTime == 3
MaxTTL == 2
MaxLog == 3
MaxErrors == 2
MaxKwargs == 3
MaxCalls == 3

\* self._memory_cache_size (1000 in the source), scaled down
memory_cache_size == 2

\* the keys callers use: one key where the clock runs, three where the
\* volatile tier must overflow
Keys1 == {<<"k1">>}
Keys2 == {<<"k1">>, <<"k2">>}
Keys3 == {<<"k1">>, <<"k2">>, <<"k3">>}
TTLs == 1..MaxTTL

(***************************************************************************)
(* Python values and their serialization.                                   *)
(***************************************************************************)
None == [kind |-> "None", body |-> "", t |-> 0]
\* an object pickle serializes: pickle.loads(pickle.dumps(v)) = v
Obj(b) == [kind |-> "obj", body |-> b, t |-> 0]
\* an object pickle refuses (a dict holding a lambda, a generator, a lock):
\* json.dumps(v, default=str) writes str() of the offending part
Unpicklable == [kind |-> "unpicklable", body |-> "f", t |-> 0]
\* an object both refuse, e.g. {(1, 2): lambda: 0}: pickle cannot serialize
\* the lambda, json cannot serialize a tuple key (default= is not used for keys)
Unserializable == [kind |-> "unserializable", body |-> "g", t |-> 0]
Payloads == {Obj("v1"), Unpicklable, Unserializable}

pickle_dumps_ok(v) == v.kind \notin {"unpicklable", "unserializable"}
pickle_dumps(v) == [codec |-> "pickle", obj |-> v]
json_dumps_ok(v) == v.kind # "unserializable"
\* json.dumps(data, default=str).encode('utf-8')
json_dumps(v) ==
    [codec |-> "json",
     obj |-> IF v.kind = "unpicklable" THEN [kind |-> "str", body |-> v.body, t |-> v.t] ELSE v]
\* pickle.loads raises on JSON text (no JSON text is a pickle stream)
pickle_loads_ok(b) == b.codec = "pickle"
\* cache_manager.py 50-54: pickle first, JSON when pickle raises
deserialize(b) == b.obj
\* cache_manager.py 77-82
serialize_ok(v) == pickle_dumps_ok(v) \/ json_dumps_ok(v)
serialize(v) == IF pickle_dumps_ok(v) THEN pickle_dumps(v) ELSE json_dumps(v)
\* len(serialized_data)
bytes_len(b) == IF b.codec = "pickle" THEN 2 ELSE 1

(***************************************************************************)
(* The insertion-ordered dict _memory_cache.                                *)
(***************************************************************************)
MemKeys(mem) == {mem[i].key : i \in 1..Len(mem)}
MemIndex(mem, k) == CHOOSE i \in 1..Len(mem) : mem[i].key = k
MemItem(mem, k) == mem[MemIndex(mem, k)]
MemKeySeq(mem) == [i \in 1..Len(mem) |-> mem[i].key]
\* del d[k]
MemDel(mem, k) == SelectSeq(mem, LAMBDA e : e.key # k)
\* d[k] = item: a present key keeps its place, a new key goes last
MemPut(mem, k, item) ==
    IF k \in MemKeys(mem) THEN [mem EXCEPT ![MemIndex(mem, k)] = item]
    ELSE Append(mem, item)

\* _is_expired with the comparison lost: nothing ever expires
is_expired_never(expires_at, t) == FALSE

\* CacheManager._is_expired
is_expired(expires_at, t) == t > expires_at

\* _update_memory_cache without the size check
update_memory_cache_no_evict(mem, k, data, expires_at, t) ==
    MemPut(mem, k, [key |-> k, data |-> data, expires_at |-> expires_at])

\* _update_memory_cache evicting the newest entry instead of the oldest
update_memory_cache_evict_newest(mem, k, data, expires_at, t) ==
    LET m1 == IF Len(mem) >= memory_cache_size THEN SubSeq(mem, 1, Len(mem) - 1) ELSE mem
    IN MemPut(m1, k, [key |-> k, data |-> data, expires_at |-> expires_at])

\* CacheManager._update_memory_cache
update_memory_cache(mem, k, data, expires_at, t) ==
    LET m1 == IF Len(mem) >= memory_cache_size THEN Tail(mem) ELSE mem
    IN MemPut(m1, k, [key |-> k, data |-> data, expires_at |-> expires_at])

(***************************************************************************)
(* CacheDatabase, on db = [entries, log, unc].                              *)
(***************************************************************************)
NullRow ==
    [data |-> [codec |-> "none", obj |-> None], expires_at |-> 0, created_at |-> 0,
     access_count |-> 0, data_size |-> 0, source_id |-> "NULL",
     cache_type |-> "general"]

Upsert(f, k, row) == [x \in DOMAIN f \cup {k} |-> IF x = k THEN row ELSE f[x]]
Remove(f, S) == [x \in DOMAIN f \ S |-> f[x]]

\* _log_cache_access with the INSERT lost: no row is written
log_cache_access_no_row(db, k, type) == db

\* CacheDatabase._log_cache_access: an INSERT that is not committed
log_cache_access(db, k, type) ==
    [db EXCEPT !.log = Append(@, [cache_key |-> k, access_type |-> type]),
               !.unc = @ + 1]
\* self.connection.commit()
commit(db) == [db EXCEPT !.unc = 0]

\* CacheDatabase.get_cached_data
db_get_cached_data(db, open, k, t) ==
    IF ~open THEN [db |-> db, found |-> FALSE, row |-> NullRow]
    ELSE IF k \notin DOMAIN db.entries
    THEN [db |-> log_cache_access(db, k, "miss"), found |-> FALSE, row |-> NullRow]
    ELSE LET row == db.entries[k]
             d1 == [db EXCEPT !.entries[k] =
                        [row EXCEPT !.access_count = @ + 1]]
         IN [db |-> log_cache_access(commit(d1), k, "hit"), found |-> TRUE, row |-> row]

\* CacheDatabase.set_cached_data
db_set_cached_data(db, open, k, data, expires_at, data_size, source_id, cache_type, t) ==
    IF ~open THEN [db |-> db, ok |-> FALSE]
    ELSE LET row == [data |-> data, expires_at |-> expires_at, created_at |-> t,
                     access_count |-> 0, data_size |-> data_size,
                     source_id |-> source_id, cache_type |-> cache_type]
             d1 == [db EXCEPT !.entries = Upsert(@, k, row)]
         IN [db |-> log_cache_access(commit(d1), k, "set"), ok |-> TRUE]

\* CacheDatabase.delete_cached_data
db_delete_cached_data(db, open, k) ==
    IF ~open THEN [db |-> db, ok |-> FALSE]
    ELSE LET d1 == [db EXCEPT !.entries = Remove(@, {k})]
         IN [db |-> log_cache_access(commit(d1), k, "delete"),
             ok |-> k \in DOMAIN db.entries]

\* the keys of the rows with expires_at < current_time
ExpiredRows(db, t) == {k \in DOMAIN db.entries : db.entries[k].expires_at < t}
Orders(S) == {s \in [1..Cardinality(S) -> S] : {s[i] : i \in 1..Cardinality(S)} = S}
RECURSIVE LogAll(_, _, _)
LogAll(db, keys, type) ==
    IF keys = <<>> THEN db
    ELSE LogAll(log_cache_access(db, Head(keys), type), Tail(keys), type)

\* CacheDatabase.clear_expired_cache; order is the row order of its SELECT
db_clear_expired_cache(db, open, t, order) ==
    IF ~open THEN [db |-> db, n |-> 0]
    ELSE LET expired == ExpiredRows(db, t)
             d1 == [db EXCEPT !.entries = Remove(@, expired)]
         IN [db |-> commit(LogAll(d1, order, "expire")), n |-> Cardinality(expired)]

\* get_source_cache_keys with the WHERE clause lost: every key
db_get_all_cache_keys(db, open, source_id) ==
    IF ~open THEN {} ELSE DOMAIN db.entries

\* CacheDatabase.get_source_cache_keys
db_get_source_cache_keys(db, open, source_id) ==
    IF ~open THEN {}
    ELSE {k \in DOMAIN db.entries : db.entries[k].source_id = source_id}

\* CacheDatabase.health_check
db_health_check(open) == open

(***************************************************************************)
(* CacheManager, on cm = [mem, db].                                         *)
(***************************************************************************)
\* where the clock stands against the expires_at of the entry a get looked at
When(t, expires_at) ==
    IF t < expires_at THEN "before" ELSE IF t = expires_at THEN "at" ELSE "after"

\* CacheManager.get_cached_data; tier and when report the entry that decided
\* the result
cm_get_cached_data(mem, db, open, k, t) ==
    IF k \in MemKeys(mem) /\ ~is_expired(MemItem(mem, k).expires_at, t)
    THEN [mem |-> mem, db |-> db, data |-> MemItem(mem, k).data, tier |-> "memory",
          when |-> When(t, MemItem(mem, k).expires_at)]
    ELSE LET m1 == MemDel(mem, k)
             g == db_get_cached_data(db, open, k, t)
         IN IF g.found /\ ~is_expired(g.row.expires_at, t)
            THEN LET data == deserialize(g.row.data)
                 IN [mem |-> update_memory_cache(m1, k, data, g.row.expires_at, t),
                     db |-> g.db, data |-> data, tier |-> "disk",
                     when |-> When(t, g.row.expires_at)]
            ELSE [mem |-> m1, db |-> g.db, data |-> None, tier |-> "none",
                  when |-> IF g.found THEN When(t, g.row.expires_at)
                           ELSE IF k \in MemKeys(mem)
                                THEN When(t, MemItem(mem, k).expires_at)
                                ELSE "absent"]

\* set_cached_data answering for the volatile write alone
cm_set_cached_data_memory_ok(mem, db, open, k, data, ttl, t) ==
    LET expires_at == t + ttl
        m1 == update_memory_cache(mem, k, data, expires_at, t)
    IN IF ~serialize_ok(data)
       THEN [mem |-> m1, db |-> db, ok |-> FALSE]
       ELSE LET b == serialize(data)
                s == db_set_cached_data(db, open, k, b, expires_at, bytes_len(b),
                                        "NULL", "general", t)
            IN [mem |-> m1, db |-> s.db, ok |-> TRUE]

\* CacheManager.set_cached_data
cm_set_cached_data(mem, db, open, k, data, ttl, t) ==
    LET expires_at == t + ttl
        m1 == update_memory_cache(mem, k, data, expires_at, t)
    IN IF ~serialize_ok(data)
       THEN [mem |-> m1, db |-> db, ok |-> FALSE]
       ELSE LET b == serialize(data)
                s == db_set_cached_data(db, open, k, b, expires_at, bytes_len(b),
                                        "NULL", "general", t)
            IN [mem |-> m1, db |-> s.db, ok |-> s.ok]

\* invalidate_cache without the deletion from _memory_cache
cm_invalidate_cache_disk_only(mem, db, open, k) ==
    LET d == db_delete_cached_data(db, open, k)
    IN [mem |-> mem, db |-> d.db, ok |-> d.ok]

\* CacheManager.invalidate_cache
cm_invalidate_cache(mem, db, open, k) ==
    LET d == db_delete_cached_data(db, open, k)
    IN [mem |-> MemDel(mem, k), db |-> d.db, ok |-> d.ok]

\* the loop of refresh_cache over cache_keys
RECURSIVE invalidate_all(_, _, _, _)
invalidate_all(mem, db, open, cache_keys) ==
    IF cache_keys = <<>> THEN [mem |-> mem, db |-> db, success_count |-> 0]
    ELSE LET r == cm_invalidate_cache(mem, db, open, Head(cache_keys))
             rest == invalidate_all(r.mem, r.db, open, Tail(cache_keys))
         IN [mem |-> rest.mem, db |-> rest.db,
             success_count |-> (IF r.ok THEN 1 ELSE 0) + rest.success_count]

\* CacheManager.refresh_cache; cache_keys is what get_source_cache_keys
\* returned, in the row order of its SELECT
cm_refresh_cache(mem, db, open, cache_keys) ==
    LET r == invalidate_all(mem, db, open, cache_keys)
    IN [mem |-> r.mem, db |-> r.db, ok |-> r.success_count = Len(cache_keys)]

\* the loop of batch_set_cached_data over data_dict.items(): the tiers it
\* leaves and what set_cached_data returned for each item
RECURSIVE set_all(_, _, _, _, _, _)
set_all(mem, db, open, items, ttl, t) ==
    IF items = <<>> THEN [mem |-> mem, db |-> db, res |-> <<>>]
    ELSE LET r == cm_set_cached_data(mem, db, open, Head(items).key, Head(items).data, ttl, t)
             rest == set_all(r.mem, r.db, open, Tail(items), ttl, t)
         IN [mem |-> rest.mem, db |-> rest.db,
             res |-> <<[key |-> Head(items).key, data |-> Head(items).data, ok |-> r.ok]>>
                         \o rest.res]

\* batch_set_cached_data answering True when some set succeeded
cm_batch_set_cached_data_any(mem, db, open, items, ttl, t) ==
    LET r == set_all(mem, db, open, items, ttl, t)
        success_count == Len(SelectSeq(r.res, LAMBDA x : x.ok))
    IN [mem |-> r.mem, db |-> r.db, res |-> r.res, ok |-> success_count > 0]

\* CacheManager.batch_set_cached_data
cm_batch_set_cached_data(mem, db, open, items, ttl, t) ==
    LET r == set_all(mem, db, open, items, ttl, t)
        success_count == Len(SelectSeq(r.res, LAMBDA x : x.ok))
    IN [mem |-> r.mem, db |-> r.db, res |-> r.res, ok |-> success_count = Len(items)]

\* CacheManager.clear_expired_cache
cm_clear_expired_cache(mem, db, open, t, order) ==
    LET expired_keys == {k \in MemKeys(mem) : is_expired(MemItem(mem, k).expires_at, t)}
        m1 == SelectSeq(mem, LAMBDA e : e.key \notin expired_keys)
        d == db_clear_expired_cache(db, open, t, order)
    IN [mem |-> m1, db |-> d.db, n |-> Cardinality(expired_keys) + d.n]

(***************************************************************************)
(* State.                                                                   *)
(***************************************************************************)
(***************************************************************************)
(* DataSourceManager (core/data_source_manager.py).  data_sources is a      *)
(* table source_id -> DataSourceConfig; of a configuration the fields name, *)
(* enabled, last_updated, status and error_count are kept (the type,        *)
(* category, url, api_key and frequency are set once and never read by the  *)
(* operations modelled).  A time that may be None is <<>> or <<t>>.         *)
(***************************************************************************)
SourceIds == {"yahoo_finance", "fred"}
SourceNames == {"n1", "n2"}
Statuses == {"active", "inactive", "error"}

\* DataSourceConfig.__init__
DataSourceConfig(source_id, name, enabled) ==
    [source_id |-> source_id, name |-> name, enabled |-> enabled,
     last_updated |-> <<>>, status |-> "unknown", error_count |-> 0]

\* DataSourceConfig.to_dict
to_dict(source) ==
    [source_id |-> source.source_id, name |-> source.name,
     enabled |-> source.enabled,
     last_updated |-> IF source.last_updated = <<>>
                      THEN [null |-> TRUE, iso |-> 0]
                      ELSE [null |-> FALSE, iso |-> source.last_updated[1]],
     status |-> source.status, error_count |-> source.error_count]

\* DataSourceManager.save_configurations: what is written to config_file
save_configurations(ds) == [id \in DOMAIN ds |-> to_dict(ds[id])]

\* DataSourceManager.get_active_sources
get_active_sources(ds) == {id \in DOMAIN ds : ds[id].enabled}

\* DataSourceManager.add_source
add_source(ds, file, source) ==
    IF source.source_id \in DOMAIN ds
    THEN [ds |-> ds, file |-> file, ok |-> FALSE]
    ELSE LET ds1 == Upsert(ds, source.source_id, source)
         IN [ds |-> ds1, file |-> save_configurations(ds1), ok |-> TRUE]

\* update_source_status without the else branch: the counter is never reset
update_source_status_no_reset(ds, file, source_id, status, t) ==
    IF source_id \in DOMAIN ds
    THEN LET ds1 == [ds EXCEPT ![source_id] =
                        [@ EXCEPT !.status = status,
                                  !.last_updated = <<t>>,
                                  !.error_count = IF status = "error" THEN @ + 1 ELSE @]]
         IN [ds |-> ds1, file |-> save_configurations(ds1)]
    ELSE [ds |-> ds, file |-> file]

\* DataSourceManager.update_source_status
update_source_status(ds, file, source_id, status, t) ==
    IF source_id \in DOMAIN ds
    THEN LET ds1 == [ds EXCEPT ![source_id] =
                        [@ EXCEPT !.status = status,
                                  !.last_updated = <<t>>,
                                  !.error_count = IF status = "error" THEN @ + 1 ELSE 0]]
         IN [ds |-> ds1, file |-> save_configurations(ds1)]
    ELSE [ds |-> ds, file |-> file]

(***************************************************************************)
(* MetadataDatabase (storage/metadata_db.py), table data_sources.  A        *)
(* source_config is a dict: a key it does not hold is Missing.              *)
(***************************************************************************)
Missing == "<missing>"
\* dict.get(key, default)
DictGet(d, default) == IF d = Missing THEN default ELSE d

SourceConfigs ==
    [source_id : SourceIds, name : SourceNames \cup {Missing}, type : {"api"},
     adapter_class : {"Adapter"}, status : {Missing, "inactive"}]

\* MetadataDatabase.save_data_source
save_data_source(tbl, source_config) ==
    IF Missing \in {source_config.source_id, source_config.name,
                    source_config.type, source_config.adapter_class}
    THEN [tbl |-> tbl, ok |-> FALSE]
    ELSE [tbl |-> Upsert(tbl, source_config.source_id,
                         [name |-> source_config.name,
                          type |-> source_config.type,
                          adapter_class |-> source_config.adapter_class,
                          status |-> DictGet(source_config.status, "active"),
                          created_at |-> <<>>,
                          updated_at |-> <<>>]),
          ok |-> TRUE]

\* MetadataDatabase.get_data_source
get_data_source(tbl, source_id) ==
    IF source_id \in DOMAIN tbl
    THEN [found |-> TRUE, row |-> tbl[source_id]]
    ELSE [found |-> FALSE,
          row |-> [name |-> "", type |-> "", adapter_class |-> "", status |-> "",
                   created_at |-> <<>>, updated_at |-> <<>>]]

\* MetadataDatabase.update_data_source, with updates = {'status': status}
update_data_source(tbl, source_id, status, t) ==
    IF source_id \in DOMAIN tbl
    THEN [tbl |-> [tbl EXCEPT ![source_id] =
                      [@ EXCEPT !.status = status, !.updated_at = <<t>>]],
          ok |-> TRUE]
    ELSE [tbl |-> tbl, ok |-> FALSE]

\* MetadataDatabase.delete_data_source
delete_data_source(tbl, source_id) ==
    [tbl |-> Remove(tbl, {source_id}), ok |-> source_id \in DOMAIN tbl]

(***************************************************************************)
(* CacheManager._generate_cache_key of args and kwargs.  kwargs is the     *)
(* sequence of the <<name, value>> pairs in the order of the call, the      *)
(* names distinct; ParamOrder lists the names in the order of str.          *)
(***************************************************************************)
ParamOrder == <<"a", "b", "c">>

\* the items in the order of the call: no sorting
items_unsorted(kwargs) == kwargs

\* sorted(kwargs.items())
sorted_items(kwargs) ==
    LET names == SelectSeq(ParamOrder,
                           LAMBDA n : \E i \in 1..Len(kwargs) : kwargs[i][1] = n)
    IN [j \in 1..Len(names) |->
            CHOOSE p \in {kwargs[i] : i \in 1..Len(kwargs)} : p[1] = names[j]]

\* hashlib.md5(key_data.encode()).hexdigest(), taken as free of collisions
md5(key_data) == [md5 |-> key_data]

\* CacheManager._generate_cache_key
cm_generate_cache_key(args, kwargs) ==
    md5([args |-> args, kwargs |-> sorted_items(kwargs)])

(***************************************************************************)
(* DataAccessService (core/data_access_service.py).  A str is the sequence  *)
(* of the pieces its '|' characters separate, so that '|'.join is            *)
(* concatenation; an argument that is None is NoneArg.                       *)
(***************************************************************************)
Str(x) == <<x>>
NoneArg == <<>>

\* DataAccessService._generate_cache_key
RECURSIVE generate_cache_key(_)
generate_cache_key(args) ==
    IF args = <<>> THEN <<>>
    ELSE (IF Head(args) = NoneArg THEN <<>> ELSE Head(args))
             \o generate_cache_key(Tail(args))

\* '-'.join(list)
RECURSIVE dash_join(_)
dash_join(list) ==
    IF list = <<>> THEN ""
    ELSE IF Len(list) = 1 THEN list[1]
    ELSE list[1] \o "-" \o dash_join(Tail(list))

\* DataAccessService._data_type_mapping.get(data_type, ['yahoo_finance'])
data_type_mapping(data_type) ==
    CASE data_type = "stock_prices" -> <<"yahoo_finance", "fred">>
      [] data_type = "economic_indicators" -> <<"fred", "worldbank">>
      [] data_type = "corporate_financials" -> <<"sec_edgar", "yahoo_finance">>
      [] data_type = "bond_data" -> <<"fred">>
      [] data_type = "commodity_prices" -> <<"fred">>
      [] data_type = "currency_rates" -> <<"fred">>
      [] OTHER -> <<"yahoo_finance">>

ttl_prices == 900
ttl_fundamentals == 3600
ttl_historical == 86400
ttl_default == 3600
ttl_economic == 86400
ttl_corporate == 3600

\* DataAccessService._get_appropriate_ttl
get_appropriate_ttl(data_type) ==
    IF data_type \in {"prices", "realtime"} THEN ttl_prices
    ELSE IF data_type \in {"fundamentals", "company_profile"} THEN ttl_fundamentals
    ELSE IF data_type \in {"historical"} THEN ttl_historical
    ELSE ttl_default

\* self.source_manager.get_source(source_id): class DataSourceManager defines
\* no get_source, the attribute lookup raises AttributeError
source_manager_get_source(ds, source_id) ==
    [raised |-> TRUE, found |-> source_id \in DOMAIN ds]

\* self.source_manager.is_healthy(): class DataSourceManager defines no
\* is_healthy either, the attribute lookup raises AttributeError
source_manager_is_healthy(ds) == [raised |-> TRUE, value |-> FALSE]

\* CacheManager.is_healthy
cm_is_healthy(open) == db_health_check(open)

\* DataAccessService.is_healthy: an exception gives False
das_is_healthy(ds, open) ==
    LET sm == source_manager_is_healthy(ds)
    IN IF sm.raised THEN FALSE ELSE sm.value /\ cm_is_healthy(open)

\* MetadataDatabase.health_check on its own connection
meta_health_check(meta_open) == meta_open

\* DataHub.health_check: the status it returns; the services are asked in
\* the order of the dict literal, after db_status
hub_health_check(ds, meta_open, open) ==
    LET db_status == meta_health_check(meta_open) /\ db_health_check(open)
        sm == source_manager_is_healthy(ds)
    IN IF sm.raised THEN [status |-> "unhealthy", error |-> "AttributeError"]
       ELSE [status |-> IF db_status /\ sm.value /\ cm_is_healthy(open)
                                     /\ das_is_healthy(ds, open)
                        THEN "healthy" ELSE "unhealthy",
             error |-> ""]

\* DataAccessService._generate_mock_data
generate_mock_data(source_id) == [kind |-> "mock", body |-> source_id, t |-> 0]

\* DataAccessService._fetch_from_source
fetch_from_source(ds, source_id) ==
    LET g == source_manager_get_source(ds, source_id)
    IN IF g.raised
       THEN [success |-> FALSE, error |-> "AttributeError", data |-> None]
       ELSE IF ~g.found
       THEN [success |-> FALSE, error |-> "not configured", data |-> None]
       ELSE [success |-> TRUE, error |-> "", data |-> generate_mock_data(source_id)]

\* DataAccessService._process_financial_data
process_financial_data(raw_data, data_type, t) ==
    [kind |-> "financial", body |-> raw_data.body \o ":" \o data_type, t |-> t]

\* DataAccessService._process_economic_data
process_economic_data(raw_data, t) ==
    [kind |-> "economic", body |-> raw_data.body, t |-> t]

\* raw.get('data', {})
DataOf(raw) == IF raw.success THEN raw.data.body ELSE "{}"

\* DataAccessService._process_corporate_data
process_corporate_data(yahoo_data, sec_data, fields, t) ==
    [kind |-> "corporate",
     body |-> DataOf(yahoo_data) \o "+" \o DataOf(sec_data) \o ":" \o dash_join(fields),
     t |-> t]

\* the truth value of a Python object
truthy(v) == v.kind # "None"

\* the cache lookup skipped: every call goes upstream
das_lookup_never(mem, db, open, cache_key, force_refresh, t) ==
    [mem |-> mem, db |-> db, data |-> None]

\* the cache lookup the three operations start with
das_lookup(mem, db, open, cache_key, force_refresh, t) ==
    IF force_refresh
    THEN [mem |-> mem, db |-> db, data |-> None]
    ELSE LET g == cm_get_cached_data(mem, db, open, cache_key, t)
         IN [mem |-> g.mem, db |-> g.db, data |-> g.data]

\* what an operation returns and leaves behind
DasResult(key, mem, db, success, data, source, error, fetched, failed, set_calls) ==
    [key |-> key, mem |-> mem, db |-> db, success |-> success, data |-> data,
     source |-> source, error |-> error, fetched |-> fetched, failed |-> failed,
     set_calls |-> set_calls]

\* DataAccessService.get_financial_data
das_get_financial_data(mem, db, open, ds, symbol, data_type, start_date, end_date, force_refresh, t) ==
    LET cache_key == generate_cache_key(<<Str("financial"), symbol, Str(data_type),
                                          start_date, end_date>>)
        c == das_lookup(mem, db, open, cache_key, force_refresh, t)
        sources == data_type_mapping(data_type)
        source_id == sources[1]
        raw_data == fetch_from_source(ds, source_id)
        processed_data == process_financial_data(raw_data.data, data_type, t)
        ttl == get_appropriate_ttl(data_type)
        w == cm_set_cached_data(c.mem, c.db, open, cache_key, processed_data, ttl, t)
    IN IF truthy(c.data)
       THEN DasResult(cache_key, c.mem, c.db, TRUE, c.data, "cache", "", <<>>, FALSE, 0)
       ELSE IF ~raw_data.success
       THEN DasResult(cache_key, c.mem, c.db, FALSE, None, "", raw_data.error,
                      <<source_id>>, TRUE, 0)
       ELSE DasResult(cache_key, w.mem, w.db, TRUE, processed_data, source_id, "",
                      <<source_id>>, FALSE, 1)

\* DataAccessService.get_economic_indicators
das_get_economic_indicators(mem, db, open, ds, indicators, country, start_date, end_date, force_refresh, t) ==
    LET cache_key == generate_cache_key(<<Str("economic"), Str(dash_join(indicators)),
                                          country, start_date, end_date>>)
        c == das_lookup(mem, db, open, cache_key, force_refresh, t)
        raw_data == fetch_from_source(ds, "fred")
        processed_data == process_economic_data(raw_data.data, t)
        w == cm_set_cached_data(c.mem, c.db, open, cache_key, processed_data,
                                ttl_economic, t)
    IN IF truthy(c.data)
       THEN DasResult(cache_key, c.mem, c.db, TRUE, c.data, "cache", "", <<>>, FALSE, 0)
       ELSE IF ~raw_data.success
       THEN DasResult(cache_key, c.mem, c.db, FALSE, None, "", raw_data.error,
                      <<"fred">>, TRUE, 0)
       ELSE DasResult(cache_key, w.mem, w.db, TRUE, processed_data, "fred", "",
                      <<"fred">>, FALSE, 1)

\* DataAccessService.get_corporate_data
das_get_corporate_data(mem, db, open, ds, symbol, data_fields, force_refresh, t) ==
    LET cache_key == generate_cache_key(<<Str("corporate"), symbol,
                                          Str(dash_join(data_fields))>>)
        c == das_lookup(mem, db, open, cache_key, force_refresh, t)
        yahoo_data == fetch_from_source(ds, "yahoo_finance")
        sec_data == fetch_from_source(ds, "sec_edgar")
        processed_data == process_corporate_data(yahoo_data, sec_data, data_fields, t)
        w == cm_set_cached_data(c.mem, c.db, open, cache_key, processed_data,
                                ttl_corporate, t)
    IN IF truthy(c.data)
       THEN DasResult(cache_key, c.mem, c.db, TRUE, c.data, "cache", "", <<>>, FALSE, 0)
       ELSE DasResult(cache_key, w.mem, w.db, TRUE, processed_data, "multiple", "",
                      <<"yahoo_finance", "sec_edgar">>,
                      ~yahoo_data.success \/ ~sec_data.success, 1)

\* the cache key of a request: get_financial_data builds it from the symbol,
\* get_economic_indicators from '-'.join(indicators); a symbol is a list of one
request_key(req) ==
    generate_cache_key(<<Str(req.ns), Str(dash_join(req.items)), req.kind,
                         req.start_date, req.end_date>>)

Db == [entries |-> cache_entries, log |-> cache_access_log, unc |-> uncommitted]

NoCall ==
    [op |-> "none", key |-> <<>>, data |-> None, ok |-> FALSE, n |-> 0,
     tier |-> "none", when |-> "absent"]

\* hist: nothing to remember / the key was invalidated and not set since
\* (held: the tiers that held it when it was) / the key was set with success
\* (v, exp) and not touched since
Idle == [state |-> "idle", v |-> None, exp |-> 0, held |-> "none"]
Invalidated(held) == [state |-> "invalidated", v |-> None, exp |-> 0, held |-> held]
Fresh(v, exp) == [state |-> "fresh", v |-> v, exp |-> exp, held |-> "none"]
\* the tiers that hold key k
Held(k) ==
    IF k \in MemKeys(memory_cache)
    THEN (IF k \in DOMAIN cache_entries THEN "both" ELSE "memory")
    ELSE (IF k \in DOMAIN cache_entries THEN "disk" ELSE "none")

NoOrch ==
    [fetched |-> <<>>, failed |-> FALSE, set_calls |-> 0, error |-> "",
     source |-> "", before |-> None]

NoKeys == [op |-> "none", a |-> <<>>, b |-> <<>>, key_a |-> <<>>, key_b |-> <<>>]
NotStale == [on |-> FALSE, key |-> <<>>, v |-> None, exp |-> 0, served |-> FALSE]

\* stale after this process invalidated k: the copy the other process
\* still holds in its volatile tier, if it holds one
StaleAfterInvalidate(k) ==
    IF k \in MemKeys(memory_cache_B)
    THEN [on |-> TRUE, key |-> k, v |-> MemItem(memory_cache_B, k).data,
          exp |-> MemItem(memory_cache_B, k).expires_at,
          served |-> stale.on /\ stale.key = k /\ stale.served]
    ELSE stale

\* Two processes on one cache.db, each with its own connection.
Procs == {"A", "B"}
NoRet == [proc |-> "", op |-> "none", ok |-> FALSE, row |-> NullRow, n |-> 0,
          logged |-> {}, removed |-> {}]
NoRace ==
    [pc |-> [p \in Procs |-> "idle"],      \* the statement each call is at
     key |-> [p \in Procs |-> <<>>],       \* the key of each call
     row |-> [p \in Procs |-> NullRow],    \* the row a get's SELECT fetched
     rgen |-> [p \in Procs |-> 0],         \* the set that wrote that row
     sel |-> [p \in Procs |-> {}],         \* the keys a sweep's SELECT fetched
     lock |-> "none",                      \* the connection with an open write transaction
     unc |-> [p \in Procs |-> <<>>],       \* the log rows inserted in that transaction
     log |-> <<>>,                         \* the committed rows of cache_access_log
     calls |-> 0,                          \* calls started so far
     gen |-> 0,                            \* sets committed so far
     row_gen |-> 0,                        \* the set that wrote the stored row
     returned |-> 0,                       \* gets that returned the stored row since that set
     ret |-> NoRet]                        \* what the last finished call returned

\* Two threads on one CacheManager.
Threads == {"T1", "T2"}
NoThrRet == [thread |-> "", op |-> "none", key |-> <<>>, ok |-> FALSE, data |-> None,
             raced |-> FALSE]
NoThr ==
    [pc |-> [t \in Threads |-> "idle"],          \* the statement each call is at
     op |-> [t \in Threads |-> "none"],          \* the call each thread is in
     key |-> [t \in Threads |-> <<>>],           \* its cache_key
     data |-> [t \in Threads |-> None],          \* its data
     exp |-> [t \in Threads |-> 0],              \* its expires_at
     oldest |-> [t \in Threads |-> <<>>],        \* its oldest_key
     expired_keys |-> [t \in Threads |-> <<>>],  \* its expired_keys
     n |-> [t \in Threads |-> 0],                \* entries its sweep deleted
     calls |-> 0,                                \* calls started so far
     ret |-> NoThrRet]                           \* what the last finished call returned

NoAside == [on |-> FALSE, key |-> <<>>, data |-> None, exp |-> 0]
\* aside after another call wrote or deleted key k
AsideAfter(k) == IF k = aside.key THEN NoAside ELSE aside

NoRun == [valid |-> FALSE, keys |-> <<>>, last_read |-> <<>>]
Range(s) == {s[i] : i \in 1..Len(s)}
\* fifo_run after a call that left the tier as mem2
RunAfter(mem2) == IF mem2 = memory_cache THEN fifo_run ELSE NoRun

InitBase ==
    /\ now = 0
    /\ memory_cache = <<>>
    /\ cache_entries = <<>>
    /\ cache_access_log = <<>>
    /\ uncommitted = 0
    /\ connection_open = TRUE
    /\ last = NoCall
    /\ hist = Idle
    /\ fifo_run = [valid |-> TRUE, keys |-> <<>>, last_read |-> <<>>]
    /\ data_sources = <<>>
    /\ config_file = <<>>
    /\ meta_data_sources = <<>>
    /\ orch = NoOrch
    /\ keyq = NoKeys
    /\ memory_cache_B = <<>>
    /\ stale = NotStale
    /\ batch_res = <<>>
    /\ aside = NoAside
    /\ race = NoRace
    /\ thr = NoThr

Init == InitBase /\ tracked \in Keys1
\* the keys are interchangeable: the first one is followed
InitEvict == InitBase /\ tracked = <<"k1">>

SetDb(db) ==
    /\ Len(db.log) <= MaxLog
    /\ cache_entries' = db.entries
    /\ cache_access_log' = db.log
    /\ uncommitted' = db.unc

\* a caller calls cache_manager.get_cached_data(k)
GetCachedData(k) ==
    LET r == cm_get_cached_data(memory_cache, Db, connection_open, k, now)
    IN /\ SetDb(r.db)
       /\ memory_cache' = r.mem
       /\ last' = [NoCall EXCEPT !.op = "get", !.key = k, !.data = r.data,
                                 !.tier = r.tier, !.when = r.when]
       /\ hist' = IF k = tracked /\ hist.state = "fresh" THEN Idle ELSE hist
       /\ fifo_run' = IF ~fifo_run.valid \/ r.tier = "disk"
                         \/ (r.tier = "none" /\ k \in MemKeys(memory_cache))
                      THEN NoRun
                      ELSE IF r.tier = "memory" THEN [fifo_run EXCEPT !.last_read = k]
                      ELSE fifo_run
       /\ UNCHANGED <<now, connection_open, tracked, reg_vars, orch, aux_vars, aside, race, thr>>

\* a caller calls cache_manager.set_cached_data(k, v, ttl)
SetCachedData(k, v, ttl) ==
    LET r == cm_set_cached_data(memory_cache, Db, connection_open, k, v, ttl, now)
    IN /\ SetDb(r.db)
       /\ memory_cache' = r.mem
       /\ last' = [NoCall EXCEPT !.op = "set", !.key = k, !.data = v, !.ok = r.ok]
       /\ hist' = IF k # tracked THEN hist
                  ELSE IF r.ok THEN Fresh(v, now + ttl) ELSE Idle
       /\ fifo_run' = IF fifo_run.valid /\ k \notin Range(fifo_run.keys)
                      THEN [fifo_run EXCEPT !.keys = Append(@, k)]
                      ELSE NoRun
       /\ aside' = AsideAfter(k)
       /\ stale' = IF k = stale.key THEN NotStale ELSE stale
       /\ UNCHANGED <<now, connection_open, tracked, reg_vars, orch, keyq,
                      memory_cache_B, batch_res, race, thr>>

\* a caller calls cache_manager.invalidate_cache(k)
InvalidateCache(k) ==
    LET r == cm_invalidate_cache(memory_cache, Db, connection_open, k)
    IN /\ SetDb(r.db)
       /\ memory_cache' = r.mem
       /\ last' = [NoCall EXCEPT !.op = "invalidate", !.key = k, !.ok = r.ok]
       /\ hist' = IF k = tracked THEN Invalidated(Held(k)) ELSE hist
       /\ fifo_run' = RunAfter(r.mem)
       /\ aside' = AsideAfter(k)
       /\ stale' = StaleAfterInvalidate(k)
       /\ UNCHANGED <<now, connection_open, tracked, reg_vars, orch, keyq,
                      memory_cache_B, batch_res, race, thr>>

\* a caller calls cache_manager.clear_expired_cache()
ClearExpiredCache ==
    \E order \in Orders(ExpiredRows(Db, now)) :
        LET r == cm_clear_expired_cache(memory_cache, Db, connection_open, now, order)
        IN /\ SetDb(r.db)
           /\ memory_cache' = r.mem
           /\ last' = [NoCall EXCEPT !.op = "sweep", !.n = r.n]
           /\ fifo_run' = RunAfter(r.mem)
           /\ UNCHANGED <<now, connection_open, tracked, hist, reg_vars, orch, aux_vars, aside, race, thr>>

\* the clock advances
Tick ==
    /\ now < MaxTime
    /\ now' = now + 1
    /\ UNCHANGED <<memory_cache, cache_entries, cache_access_log, uncommitted,
                   connection_open, last, tracked, hist, fifo_run, reg_vars, orch, aux_vars, aside, race, thr>>

\* the other process calls its own cache_manager.get_cached_data(k): its
\* own volatile tier, the same database file
GetCachedDataB(k) ==
    LET r == cm_get_cached_data(memory_cache_B, Db, connection_open, k, now)
    IN /\ SetDb(r.db)
       /\ memory_cache_B' = r.mem
       /\ last' = [NoCall EXCEPT !.op = "get_B", !.key = k, !.data = r.data,
                                 !.tier = r.tier, !.when = r.when]
       /\ stale' = IF stale.on /\ stale.key = k /\ r.data # None
                   THEN [stale EXCEPT !.served = TRUE]
                   ELSE stale
       /\ hist' = Idle
       /\ fifo_run' = NoRun
       /\ UNCHANGED <<now, memory_cache, connection_open, tracked, reg_vars, orch,
                      keyq, batch_res, aside, race, thr>>

\* the other process calls its own cache_manager.set_cached_data(k, v, ttl)
SetCachedDataB(k, v, ttl) ==
    LET r == cm_set_cached_data(memory_cache_B, Db, connection_open, k, v, ttl, now)
    IN /\ SetDb(r.db)
       /\ memory_cache_B' = r.mem
       /\ last' = [NoCall EXCEPT !.op = "set_B", !.key = k, !.data = v, !.ok = r.ok]
       /\ stale' = IF k = stale.key THEN NotStale ELSE stale
       /\ aside' = AsideAfter(k)
       /\ hist' = Idle
       /\ fifo_run' = NoRun
       /\ UNCHANGED <<now, memory_cache, connection_open, tracked, reg_vars, orch,
                      keyq, batch_res, race, thr>>

(***************************************************************************)
(* Spec: one CacheManager, one key, the clock running.                      *)
(***************************************************************************)
Get == \E k \in Keys1 : GetCachedData(k)
Set == \E k \in Keys1, v \in Payloads, ttl \in TTLs : SetCachedData(k, v, ttl)
Invalidate == \E k \in Keys1 : InvalidateCache(k)

Next == Get \/ Set \/ Invalidate \/ ClearExpiredCache \/ Tick

Spec == Init /\ [][Next]_vars

(***************************************************************************)
(* SpecEvict: one CacheManager, more keys than the volatile tier holds,     *)
(* the clock standing still.                                                *)
(***************************************************************************)
GetE == \E k \in Keys3 : GetCachedData(k)
SetE == \E k \in Keys3, v \in Payloads : SetCachedData(k, v, 1)

NextEvict == GetE \/ SetE

SpecEvict == InitEvict /\ [][NextEvict]_vars

(***************************************************************************)
(* SpecReg: the source registries.                                          *)
(***************************************************************************)
cache_vars == <<now, memory_cache, cache_entries, cache_access_log, uncommitted,
                connection_open, tracked, hist, fifo_run>>

\* a caller calls source_manager.add_source(DataSourceConfig(id, name, ..))
AddSource(id, name, enabled) ==
    LET r == add_source(data_sources, config_file, DataSourceConfig(id, name, enabled))
    IN /\ data_sources' = r.ds
       /\ config_file' = r.file
       /\ last' = [NoCall EXCEPT !.op = "add_source", !.key = <<id>>, !.ok = r.ok]
       /\ UNCHANGED <<cache_vars, meta_data_sources, orch, aux_vars, aside, race, thr>>

\* a caller calls source_manager.update_source_status(id, status)
UpdateSourceStatus(id, status) ==
    LET r == update_source_status(data_sources, config_file, id, status, now)
    IN /\ \A x \in DOMAIN r.ds : r.ds[x].error_count <= MaxErrors
       /\ data_sources' = r.ds
       /\ config_file' = r.file
       /\ last' = [NoCall EXCEPT !.op = "update_source_status", !.key = <<id>>]
       /\ UNCHANGED <<cache_vars, meta_data_sources, orch, aux_vars, aside, race, thr>>

\* a caller calls metadata_db.save_data_source(source_config)
SaveDataSource(source_config) ==
    LET r == save_data_source(meta_data_sources, source_config)
    IN /\ meta_data_sources' = r.tbl
       /\ last' = [NoCall EXCEPT !.op = "save_data_source",
                                 !.key = <<source_config.source_id>>, !.ok = r.ok]
       /\ UNCHANGED <<cache_vars, data_sources, config_file, orch, aux_vars, aside, race, thr>>

\* a caller calls metadata_db.update_data_source(id, {'status': status})
UpdateDataSource(id, status) ==
    LET r == update_data_source(meta_data_sources, id, status, now)
    IN /\ meta_data_sources' = r.tbl
       /\ last' = [NoCall EXCEPT !.op = "update_data_source", !.key = <<id>>, !.ok = r.ok]
       /\ UNCHANGED <<cache_vars, data_sources, config_file, orch, aux_vars, aside, race, thr>>

\* a caller calls metadata_db.delete_data_source(id)
DeleteDataSource(id) ==
    LET r == delete_data_source(meta_data_sources, id)
    IN /\ meta_data_sources' = r.tbl
       /\ last' = [NoCall EXCEPT !.op = "delete_data_source", !.key = <<id>>, !.ok = r.ok]
       /\ UNCHANGED <<cache_vars, data_sources, config_file, orch, aux_vars, aside, race, thr>>

AddSrc == \E id \in SourceIds, name \in SourceNames, enabled \in BOOLEAN :
              AddSource(id, name, enabled)
UpdStatus == \E id \in SourceIds, status \in Statuses : UpdateSourceStatus(id, status)
SaveSrc == \E source_config \in SourceConfigs : SaveDataSource(source_config)
UpdSrc == \E id \in SourceIds, status \in {"active", "inactive"} : UpdateDataSource(id, status)
DelSrc == \E id \in SourceIds : DeleteDataSource(id)

NextReg == AddSrc \/ UpdStatus \/ SaveSrc \/ UpdSrc \/ DelSrc

SpecReg == InitEvict /\ [][NextReg]_vars

\* The registrations and the status updates alone.
NextStatus == AddSrc \/ UpdStatus

SpecStatus == InitEvict /\ [][NextStatus]_vars

(***************************************************************************)
(* SpecOrch: a DataAccessService over the CacheManager and the              *)
(* DataSourceManager, the clock standing still.                             *)
(***************************************************************************)
Symbols == {Str("AAPL")}
DataTypes == {"stock_prices", "prices"}
Dates == {NoneArg, Str("2024-01-01")}
\* the keys of some of the requests, for entries put there beforehand
OrchKeys ==
    {generate_cache_key(<<Str("financial"), symbol, Str("stock_prices"), NoneArg, NoneArg>>) :
         symbol \in Symbols}
    \cup {generate_cache_key(<<Str("corporate"), symbol, Str("profile")>>) : symbol \in Symbols}

\* the effect of a DataAccessService operation that ends as r
DasDone(op, r) ==
    /\ SetDb(r.db)
    /\ memory_cache' = r.mem
    /\ last' = [NoCall EXCEPT !.op = op, !.key = r.key, !.data = r.data, !.ok = r.success]
    /\ orch' = [fetched |-> r.fetched, failed |-> r.failed, set_calls |-> r.set_calls,
                error |-> r.error, source |-> r.source,
                before |-> cm_get_cached_data(memory_cache, Db, connection_open,
                                              r.key, now).data]
    /\ hist' = Idle
    /\ fifo_run' = NoRun
    /\ aside' = IF /\ r.set_calls = 1
                   /\ r.key \in DOMAIN r.db.entries
                   /\ r.db.entries[r.key].data = serialize(r.data)
                THEN [on |-> TRUE, key |-> r.key, data |-> r.data,
                      exp |-> r.db.entries[r.key].expires_at]
                ELSE IF r.set_calls = 1 THEN AsideAfter(r.key)
                ELSE aside
    /\ UNCHANGED <<now, connection_open, tracked, reg_vars, aux_vars, race, thr>>

\* a caller calls data_service.get_financial_data(symbol, data_type, start_date, ..)
GetFinancialData(symbol, data_type, start_date, end_date, force_refresh) ==
    DasDone("get_financial_data",
            das_get_financial_data(memory_cache, Db, connection_open, data_sources,
                                   symbol, data_type, start_date, end_date,
                                   force_refresh, now))

\* a caller calls data_service.get_economic_indicators(indicators, country, ..)
GetEconomicIndicators(indicators, country, start_date, end_date, force_refresh) ==
    DasDone("get_economic_indicators",
            das_get_economic_indicators(memory_cache, Db, connection_open, data_sources,
                                        indicators, country, start_date, end_date,
                                        force_refresh, now))

\* a caller calls data_service.get_corporate_data(symbol, data_fields, ..)
GetCorporateData(symbol, data_fields, force_refresh) ==
    DasDone("get_corporate_data",
            das_get_corporate_data(memory_cache, Db, connection_open, data_sources,
                                   symbol, data_fields, force_refresh, now))

\* CacheManager(cache_db): a manager is constructed over the same
\* CacheDatabase; its volatile tier starts empty
NewCacheManager ==
    /\ memory_cache # <<>>
    /\ memory_cache' = <<>>
    /\ last' = [NoCall EXCEPT !.op = "init"]
    /\ hist' = Idle
    /\ fifo_run' = NoRun
    /\ UNCHANGED <<now, cache_entries, cache_access_log, uncommitted, connection_open,
                   tracked, reg_vars, orch, aux_vars, aside, race, thr>>

GetFin == \E symbol \in Symbols, data_type \in DataTypes, start_date \in Dates,
             force_refresh \in BOOLEAN :
              GetFinancialData(symbol, data_type, start_date, NoneArg, force_refresh)
GetEco == \E force_refresh \in BOOLEAN :
              GetEconomicIndicators(<<"GDP", "CPI">>, Str("US"), NoneArg, NoneArg, force_refresh)
GetCorp == \E symbol \in Symbols, force_refresh \in BOOLEAN :
               GetCorporateData(symbol, <<"profile">>, force_refresh)
SetO == \E k \in OrchKeys : SetCachedData(k, Obj("v1"), 1)
AddSrcO == \E id \in SourceIds : AddSource(id, "n1", TRUE)
UpdStatusO == \E id \in SourceIds : UpdateSourceStatus(id, "active")

NextOrch == GetFin \/ GetEco \/ GetCorp \/ SetO \/ AddSrcO \/ UpdStatusO

SpecOrch == InitEvict /\ [][NextOrch]_vars

\* Two processes, each with its CacheManager, over one database file.
SetT == \E k \in Keys1, ttl \in TTLs : SetCachedData(k, Obj("v1"), ttl)
SetB == \E k \in Keys1, ttl \in TTLs : SetCachedDataB(k, Obj("v2"), ttl)
InvalidateT == \E k \in Keys1 : InvalidateCache(k)
GetT == \E k \in Keys1 : GetCachedData(k)
GetB == \E k \in Keys1 : GetCachedDataB(k)

NextTwo == SetT \/ SetB \/ InvalidateT \/ GetT \/ GetB \/ Tick

SpecTwo == Init /\ [][NextTwo]_vars

\* The operations beside invalidations, direct writes and a manager
\* constructed anew over the same database.
InvalidateA == \E k \in OrchKeys : InvalidateCache(k)

NextAside == GetFin \/ GetEco \/ GetCorp \/ SetO \/ InvalidateA \/ NewCacheManager

SpecAside == InitEvict /\ [][NextAside]_vars

(***************************************************************************)
(* SpecKey: the two cache key builders, applied to pairs of inputs.         *)
(***************************************************************************)
Requests ==
    [ns : {"financial"}, items : {<<"AAPL">>, <<"MSFT">>},
     kind : {Str("prices")}, start_date : {NoneArg, Str("2024-01-01")},
     end_date : {NoneArg, Str("2024-01-01")}]
    \cup [ns : {"economic"}, items : {<<"GDP", "CPI">>, <<"GDP-CPI">>},
          kind : {Str("US")}, start_date : {NoneArg, Str("2024-01-01")},
          end_date : {NoneArg, Str("2024-01-01")}]

KwPairs == {<<n, v>> : n \in {"a", "b", "c"}, v \in {"1", "2"}}
KwLists ==
    {kw \in UNION {[1..n -> KwPairs] : n \in 0..MaxKwargs} :
         \A i, j \in 1..Len(kw) : kw[i][1] = kw[j][1] => i = j}
\* the same pairs in another order
Reordered(kw1, kw2) ==
    Len(kw1) = Len(kw2) /\ Range(kw1) = Range(kw2)

\* DataAccessService builds the keys of two requests
BuildRequestKeys(r1, r2) ==
    /\ keyq' = [op |-> "request", a |-> r1, b |-> r2,
                key_a |-> request_key(r1), key_b |-> request_key(r2)]
    /\ UNCHANGED <<cache_vars, reg_vars, last, orch, memory_cache_B, stale, batch_res, aside, race, thr>>

\* CacheManager._generate_cache_key is called twice, with the same args
BuildCacheKeys(args, kw1, kw2) ==
    /\ keyq' = [op |-> "cache_manager", a |-> kw1, b |-> kw2,
                key_a |-> cm_generate_cache_key(args, kw1),
                key_b |-> cm_generate_cache_key(args, kw2)]
    /\ UNCHANGED <<cache_vars, reg_vars, last, orch, memory_cache_B, stale, batch_res, aside, race, thr>>

BuildReq == \E r1 \in Requests, r2 \in Requests : BuildRequestKeys(r1, r2)
BuildCm == \E kw1 \in KwLists, kw2 \in KwLists :
               Reordered(kw1, kw2) /\ BuildCacheKeys(<<"ns">>, kw1, kw2)

NextKey == BuildReq \/ BuildCm

SpecKey == InitEvict /\ [][NextKey]_vars

(***************************************************************************)
(* SpecRefresh: rows tagged with a source, and refresh_cache.               *)
(***************************************************************************)

\* a caller of the storage layer calls
\* cache_db.set_cached_data(k, pickle.dumps(v), expires_at, size, source_id)
DbSetCachedData(k, v, ttl, source_id) ==
    LET b == pickle_dumps(v)
        r == db_set_cached_data(Db, connection_open, k, b, now + ttl, bytes_len(b),
                                source_id, "general", now)
    IN /\ SetDb(r.db)
       /\ last' = [NoCall EXCEPT !.op = "db_set", !.key = k, !.data = v, !.ok = r.ok]
       /\ hist' = Idle
       /\ aside' = AsideAfter(k)
       /\ UNCHANGED <<now, memory_cache, connection_open, tracked, fifo_run,
                      reg_vars, orch, aux_vars, race, thr>>

\* a caller calls cache_manager.refresh_cache(source_id)
RefreshCache(source_id) ==
    \E cache_keys \in Orders(db_get_source_cache_keys(Db, connection_open, source_id)) :
        LET r == cm_refresh_cache(memory_cache, Db, connection_open, cache_keys)
        IN /\ SetDb(r.db)
           /\ memory_cache' = r.mem
           /\ last' = [NoCall EXCEPT
                          !.op = "refresh", !.key = <<source_id>>, !.ok = r.ok,
                          !.n = Len(cache_keys),
                          !.tier = IF Range(cache_keys) \cap MemKeys(memory_cache) # {}
                                   THEN "both" ELSE "disk"]
           /\ hist' = Idle
           /\ fifo_run' = RunAfter(r.mem)
           /\ aside' = IF aside.key \in Range(cache_keys) THEN NoAside ELSE aside
           /\ UNCHANGED <<now, connection_open, tracked, reg_vars, orch, aux_vars, race, thr>>

SetR == \E k \in Keys2, v \in {Obj("v1"), Unserializable} : SetCachedData(k, v, 1)
DbSetR == \E k \in Keys2, source_id \in SourceIds : DbSetCachedData(k, Obj("v2"), 1, source_id)
Refresh == \E source_id \in SourceIds : RefreshCache(source_id)

NextRefresh == SetR \/ DbSetR \/ Refresh

SpecRefresh == InitEvict /\ [][NextRefresh]_vars

(***************************************************************************)
(* SpecBatch: batches of sets over more keys than the volatile tier holds.  *)
(* A data_dict is the sequence of its items in insertion order.            *)
(***************************************************************************)
DataDicts ==
    {items \in UNION {[1..n -> [key : Keys3, data : {Obj("v1"), Unserializable}]] :
                          n \in 1..Cardinality(Keys3)} :
         \A i, j \in 1..Len(items) : i # j => items[i].key # items[j].key}

\* a caller calls cache_manager.batch_set_cached_data(data_dict, ttl)
BatchSetCachedData(items, ttl) ==
    LET r == cm_batch_set_cached_data(memory_cache, Db, connection_open, items, ttl, now)
    IN /\ SetDb(r.db)
       /\ memory_cache' = r.mem
       /\ batch_res' = r.res
       /\ last' = [NoCall EXCEPT !.op = "batch_set", !.ok = r.ok, !.n = Len(items)]
       /\ hist' = Idle
       /\ fifo_run' = NoRun
       /\ aside' = IF \E i \in 1..Len(items) : items[i].key = aside.key
                   THEN NoAside ELSE aside
       /\ UNCHANGED <<now, connection_open, tracked, reg_vars, orch, keyq,
                      memory_cache_B, stale, race, thr>>

BatchSet == \E items \in DataDicts : BatchSetCachedData(items, 1)
InvalidateBt == \E k \in Keys1 : InvalidateCache(k)

NextBatch == BatchSet \/ InvalidateBt

SpecBatch == InitEvict /\ [][NextBatch]_vars

(***************************************************************************)
(* SpecCap: every operation that touches the volatile tier, over more keys *)
(* than it holds.  The clock stands still; a negative ttl gives an entry   *)
(* that is expired from the start.                                         *)
(***************************************************************************)
DataDictsC == {items \in DataDicts : /\ Len(items) >= 2
                                      /\ \A i \in 1..Len(items) : items[i].data = Obj("v1")}

SetC == \E k \in Keys3, ttl \in {-1, 1} : SetCachedData(k, Obj("v1"), ttl)
GetC == \E k \in Keys3 : GetCachedData(k)
InvalidateC == \E k \in Keys1 : InvalidateCache(k)
BatchC == \E items \in DataDictsC : BatchSetCachedData(items, 1)

NextCap == SetC \/ GetC \/ InvalidateC \/ ClearExpiredCache \/ BatchC \/ NewCacheManager

SpecCap == InitEvict /\ [][NextCap]_vars

(***************************************************************************)
(* SpecRace: two processes call CacheDatabase on the same cache.db, and    *)
(* their statements interleave.  sqlite3 opens a transaction before an     *)
(* INSERT, UPDATE or DELETE and holds it until connection.commit(); while  *)
(* one connection holds it, a write of the other raises "database is       *)
(* locked" once the busy timeout is over, and the method returns from its  *)
(* except branch.  A SELECT reads the committed rows.  cache_entries is    *)
(* the committed table, race.log the committed log.                        *)
(***************************************************************************)
race_frame == <<now, memory_cache, cache_access_log, uncommitted, connection_open,
                last, tracked, hist, fifo_run, reg_vars, orch, aux_vars, aside, thr>>

\* process p may write: no other connection holds a transaction
CanWrite(p) == race.lock \in {"none", p}
\* connection.commit() of p: its log rows become visible, the lock is free
Committed(rc, p) ==
    [rc EXCEPT !.log = @ \o rc.unc[p], !.unc[p] = <<>>, !.lock = "none"]
\* a call of p returns
Returns(rc, p, ret) == [rc EXCEPT !.pc[p] = "idle", !.ret = ret]
StartCall(p, k) ==
    /\ race.pc[p] = "idle"
    /\ race.calls < MaxCalls
PayloadOf(p) == IF p = "A" THEN Obj("v1") ELSE Obj("v2")

\* set_cached_data of p: INSERT OR REPLACE and commit, or the except branch
RaceSetWrite(p, k, ttl) ==
    /\ StartCall(p, k)
    /\ LET rc == [race EXCEPT !.calls = @ + 1, !.key[p] = k]
           b == pickle_dumps(PayloadOf(p))
           row == [data |-> b, expires_at |-> now + ttl, created_at |-> now,
                   access_count |-> 0, data_size |-> bytes_len(b),
                   source_id |-> "NULL", cache_type |-> "general"]
       IN IF CanWrite(p)
          THEN /\ cache_entries' = Upsert(cache_entries, k, row)
               /\ race' = [Committed(rc, p) EXCEPT !.pc[p] = "set_log", !.gen = @ + 1,
                                                   !.row_gen = rc.gen + 1, !.returned = 0]
          ELSE /\ cache_entries' = cache_entries
               /\ race' = Returns(rc, p, [NoRet EXCEPT !.proc = p, !.op = "set"])
    /\ UNCHANGED race_frame

\* delete_cached_data of p: DELETE and commit, or the except branch
RaceDeleteWrite(p, k) ==
    /\ StartCall(p, k)
    /\ LET rc == [race EXCEPT !.calls = @ + 1, !.key[p] = k,
                              !.row[p] = IF k \in DOMAIN cache_entries
                                         THEN cache_entries[k] ELSE NullRow]
       IN IF CanWrite(p)
          THEN /\ cache_entries' = Remove(cache_entries, {k})
               /\ race' = [Committed(rc, p) EXCEPT !.pc[p] = "delete_log"]
          ELSE /\ cache_entries' = cache_entries
               /\ race' = Returns(rc, p, [NoRet EXCEPT !.proc = p, !.op = "delete"])
    /\ UNCHANGED race_frame

\* get_cached_data of p, the SELECT
RaceGetSelect(p, k) ==
    /\ StartCall(p, k)
    /\ race' = IF k \in DOMAIN cache_entries
               THEN [race EXCEPT !.calls = @ + 1, !.key[p] = k, !.pc[p] = "get_update",
                                 !.row[p] = cache_entries[k], !.rgen[p] = race.row_gen]
               ELSE [race EXCEPT !.calls = @ + 1, !.key[p] = k, !.pc[p] = "miss_log"]
    /\ UNCHANGED <<cache_entries, race_frame>>

\* get_cached_data of p, the UPDATE of accessed_at and access_count and
\* the commit, or the except branch
RaceGetUpdate(p) ==
    /\ race.pc[p] = "get_update"
    /\ LET k == race.key[p]
       IN IF CanWrite(p)
          THEN /\ cache_entries' =
                      IF k \in DOMAIN cache_entries
                      THEN [cache_entries EXCEPT ![k].access_count = @ + 1]
                      ELSE cache_entries
               /\ race' = [Committed(race, p) EXCEPT
                              !.pc[p] = "hit_log",
                              !.returned = IF k \in DOMAIN cache_entries
                                              /\ race.rgen[p] = race.row_gen
                                           THEN @ + 1 ELSE @]
          ELSE /\ cache_entries' = cache_entries
               /\ race' = Returns(race, p, [NoRet EXCEPT !.proc = p, !.op = "get"])
    /\ UNCHANGED race_frame

\* _log_cache_access of p, then the return of the method: the INSERT opens
\* a transaction that nothing commits; when the other connection holds
\* one, the INSERT raises and the exception is swallowed
RaceLog(p) ==
    /\ race.pc[p] \in {"set_log", "delete_log", "hit_log", "miss_log"}
    /\ LET k == race.key[p]
           type == CASE race.pc[p] = "set_log" -> "set"
                     [] race.pc[p] = "delete_log" -> "delete"
                     [] race.pc[p] = "hit_log" -> "hit"
                     [] OTHER -> "miss"
           rc == IF CanWrite(p)
                 THEN [race EXCEPT !.unc[p] = Append(@, [cache_key |-> k, access_type |-> type]),
                                   !.lock = p]
                 ELSE race
           ret == CASE type = "set" -> [NoRet EXCEPT !.proc = p, !.op = "set", !.ok = TRUE]
                    [] type = "delete" -> [NoRet EXCEPT !.proc = p, !.op = "delete",
                                                        !.ok = race.row[p] # NullRow]
                    [] type = "hit" -> [NoRet EXCEPT !.proc = p, !.op = "get", !.ok = TRUE,
                                                     !.row = race.row[p]]
                    [] OTHER -> [NoRet EXCEPT !.proc = p, !.op = "get"]
       IN race' = Returns(rc, p, ret)
    /\ UNCHANGED <<cache_entries, race_frame>>

\* clear_expired_cache of p, the SELECT of the expired keys
RaceSweepSelect(p) ==
    /\ StartCall(p, <<>>)
    /\ race' = [race EXCEPT !.calls = @ + 1, !.pc[p] = "sweep_delete",
                            !.sel[p] = ExpiredRows([entries |-> cache_entries], now)]
    /\ UNCHANGED <<cache_entries, race_frame>>

\* clear_expired_cache of p, the DELETE, one 'expire' log row for each key
\* the SELECT fetched, and the commit; or the except branch
RaceSweepDelete(p) ==
    /\ race.pc[p] = "sweep_delete"
    /\ IF CanWrite(p)
       THEN \E order \in Orders(race.sel[p]) :
               LET expired == ExpiredRows([entries |-> cache_entries], now)
                   rows == [i \in 1..Len(order) |->
                               [cache_key |-> order[i], access_type |-> "expire"]]
                   rc == [race EXCEPT !.unc[p] = @ \o rows]
               IN /\ cache_entries' = Remove(cache_entries, expired)
                  /\ race' = Returns(Committed(rc, p), p,
                                     [NoRet EXCEPT !.proc = p, !.op = "sweep", !.ok = TRUE,
                                                   !.n = Cardinality(expired),
                                                   !.logged = race.sel[p],
                                                   !.removed = expired])
       ELSE /\ cache_entries' = cache_entries
            /\ race' = Returns(race, p, [NoRet EXCEPT !.proc = p, !.op = "sweep"])
    /\ UNCHANGED race_frame

RSet == \E p \in Procs, k \in Keys1, ttl \in {-1, 1} : RaceSetWrite(p, k, ttl)
RDelete == \E p \in Procs, k \in Keys1 : RaceDeleteWrite(p, k)
RGetSelect == \E p \in Procs, k \in Keys1 : RaceGetSelect(p, k)
RGetUpdate == \E p \in Procs : RaceGetUpdate(p)
RLog == \E p \in Procs : RaceLog(p)
RSweepSelect == \E p \in Procs : RaceSweepSelect(p)
RSweepDelete == \E p \in Procs : RaceSweepDelete(p)

NextRace ==
    \/ RSet \/ RDelete \/ RGetSelect \/ RGetUpdate \/ RLog
    \/ RSweepSelect \/ RSweepDelete

SpecRace == InitEvict /\ [][NextRace]_vars

(***************************************************************************)
(* SpecThreads: two threads of one process call the same CacheManager.     *)
(* The code takes no lock, so the statements of their calls interleave:    *)
(* each action below is one statement on _memory_cache, or one call into   *)
(* CacheDatabase.  sqlite3.connect keeps check_same_thread = True, so the  *)
(* connection answers only the thread that built the CacheManager (T1);    *)
(* in the other thread every CacheDatabase call raises and returns its     *)
(* failure value.  An exception in a CacheManager call ends it in its      *)
(* except branch.                                                          *)
(***************************************************************************)
thr_frame == <<now, connection_open, last, tracked, hist, fifo_run, reg_vars, orch,
               aux_vars, aside, race>>
db_frame == <<cache_entries, cache_access_log, uncommitted>>
open_for(t) == connection_open /\ t = "T1"
ThrStart(t) == thr.pc[t] = "idle" /\ thr.calls < MaxCalls
ThrCall(t, op, k, pc) ==
    [thr EXCEPT !.pc[t] = pc, !.op[t] = op, !.key[t] = k, !.calls = @ + 1]
\* the call of thread t returns
ThrReturns(th, t, ok, data, raced) ==
    [th EXCEPT !.pc[t] = "idle",
               !.ret = [thread |-> t, op |-> th.op[t], key |-> th.key[t], ok |-> ok,
                        data |-> data, raced |-> raced]]

\* set_cached_data up to the call of _update_memory_cache
ThrSetCachedData(t, k, v, ttl) ==
    /\ ThrStart(t)
    /\ thr' = [ThrCall(t, "set", k, "upd_check") EXCEPT !.data[t] = v, !.exp[t] = now + ttl]
    /\ UNCHANGED <<memory_cache, db_frame, thr_frame>>

\* if len(self._memory_cache) >= self._memory_cache_size
ThrUpdCheck(t) ==
    /\ thr.pc[t] = "upd_check"
    /\ thr' = [thr EXCEPT !.pc[t] = IF Len(memory_cache) >= memory_cache_size
                                    THEN "upd_oldest" ELSE "upd_insert"]
    /\ UNCHANGED <<memory_cache, db_frame, thr_frame>>

\* oldest_key = next(iter(self._memory_cache)): StopIteration on an empty dict
ThrUpdOldest(t) ==
    /\ thr.pc[t] = "upd_oldest"
    /\ thr' = IF memory_cache = <<>>
              THEN ThrReturns(thr, t, FALSE, None, TRUE)
              ELSE [thr EXCEPT !.pc[t] = "upd_del", !.oldest[t] = memory_cache[1].key]
    /\ UNCHANGED <<memory_cache, db_frame, thr_frame>>

\* del self._memory_cache[oldest_key]: KeyError when the key is gone
ThrUpdDel(t) ==
    /\ thr.pc[t] = "upd_del"
    /\ IF thr.oldest[t] \in MemKeys(memory_cache)
       THEN /\ memory_cache' = MemDel(memory_cache, thr.oldest[t])
            /\ thr' = [thr EXCEPT !.pc[t] = "upd_insert"]
       ELSE /\ thr' = ThrReturns(thr, t, FALSE, None, TRUE)
            /\ UNCHANGED memory_cache
    /\ UNCHANGED <<db_frame, thr_frame>>

\* self._memory_cache[cache_key] = {...}; a get returns the data after it
ThrUpdInsert(t) ==
    /\ thr.pc[t] = "upd_insert"
    /\ memory_cache' = MemPut(memory_cache, thr.key[t],
                              [key |-> thr.key[t], data |-> thr.data[t],
                               expires_at |-> thr.exp[t]])
    /\ thr' = IF thr.op[t] = "set" THEN [thr EXCEPT !.pc[t] = "set_disk"]
              ELSE ThrReturns(thr, t, TRUE, thr.data[t], FALSE)
    /\ UNCHANGED <<db_frame, thr_frame>>

\* set_cached_data from the serialization to its return
ThrSetDisk(t) ==
    /\ thr.pc[t] = "set_disk"
    /\ IF ~serialize_ok(thr.data[t])
       THEN /\ thr' = ThrReturns(thr, t, FALSE, None, FALSE)
            /\ UNCHANGED db_frame
       ELSE LET b == serialize(thr.data[t])
                s == db_set_cached_data(Db, open_for(t), thr.key[t], b, thr.exp[t],
                                        bytes_len(b), "NULL", "general", now)
            IN /\ SetDb(s.db)
               /\ thr' = ThrReturns(thr, t, s.ok, None, FALSE)
    /\ UNCHANGED <<memory_cache, thr_frame>>

\* get_cached_data: if cache_key in self._memory_cache
ThrGetCachedData(t, k) ==
    /\ ThrStart(t)
    /\ thr' = [ThrCall(t, "get", k, "get_disk") EXCEPT
                  !.pc[t] = IF k \in MemKeys(memory_cache) THEN "get_item" ELSE "get_disk"]
    /\ UNCHANGED <<memory_cache, db_frame, thr_frame>>

\* cached_item = self._memory_cache[cache_key] and the expiry test
ThrGetItem(t) ==
    /\ thr.pc[t] = "get_item"
    /\ thr' = IF thr.key[t] \notin MemKeys(memory_cache)
              THEN ThrReturns(thr, t, FALSE, None, TRUE)
              ELSE IF ~is_expired(MemItem(memory_cache, thr.key[t]).expires_at, now)
              THEN ThrReturns(thr, t, TRUE, MemItem(memory_cache, thr.key[t]).data, FALSE)
              ELSE [thr EXCEPT !.pc[t] = "get_del"]
    /\ UNCHANGED <<memory_cache, db_frame, thr_frame>>

\* del self._memory_cache[cache_key] of the expired entry
ThrGetDel(t) ==
    /\ thr.pc[t] = "get_del"
    /\ IF thr.key[t] \in MemKeys(memory_cache)
       THEN /\ memory_cache' = MemDel(memory_cache, thr.key[t])
            /\ thr' = [thr EXCEPT !.pc[t] = "get_disk"]
       ELSE /\ thr' = ThrReturns(thr, t, FALSE, None, TRUE)
            /\ UNCHANGED memory_cache
    /\ UNCHANGED <<db_frame, thr_frame>>

\* cache_db.get_cached_data, the expiry test and the deserialization
ThrGetDisk(t) ==
    /\ thr.pc[t] = "get_disk"
    /\ LET g == db_get_cached_data(Db, open_for(t), thr.key[t], now)
       IN /\ SetDb(g.db)
          /\ thr' = IF g.found /\ ~is_expired(g.row.expires_at, now)
                    THEN [thr EXCEPT !.pc[t] = "upd_check",
                                     !.data[t] = deserialize(g.row.data),
                                     !.exp[t] = g.row.expires_at]
                    ELSE ThrReturns(thr, t, FALSE, None, FALSE)
    /\ UNCHANGED <<memory_cache, thr_frame>>

\* invalidate_cache: if cache_key in self._memory_cache
ThrInvalidateCache(t, k) ==
    /\ ThrStart(t)
    /\ thr' = [ThrCall(t, "invalidate", k, "inv_disk") EXCEPT
                  !.pc[t] = IF k \in MemKeys(memory_cache) THEN "inv_del" ELSE "inv_disk"]
    /\ UNCHANGED <<memory_cache, db_frame, thr_frame>>

\* del self._memory_cache[cache_key]
ThrInvDel(t) ==
    /\ thr.pc[t] = "inv_del"
    /\ IF thr.key[t] \in MemKeys(memory_cache)
       THEN /\ memory_cache' = MemDel(memory_cache, thr.key[t])
            /\ thr' = [thr EXCEPT !.pc[t] = "inv_disk"]
       ELSE /\ thr' = ThrReturns(thr, t, FALSE, None, TRUE)
            /\ UNCHANGED memory_cache
    /\ UNCHANGED <<db_frame, thr_frame>>

\* cache_db.delete_cached_data and the return
ThrInvDisk(t) ==
    /\ thr.pc[t] = "inv_disk"
    /\ LET d == db_delete_cached_data(Db, open_for(t), thr.key[t])
       IN /\ SetDb(d.db)
          /\ thr' = ThrReturns(thr, t, d.ok, None, FALSE)
    /\ UNCHANGED <<memory_cache, thr_frame>>

\* clear_expired_cache: the loop that collects the expired keys
ThrClearExpiredCache(t) ==
    /\ ThrStart(t)
    /\ thr' = [ThrCall(t, "sweep", <<>>, "sweep_del") EXCEPT
                  !.expired_keys[t] =
                      MemKeySeq(SelectSeq(memory_cache,
                                          LAMBDA e : is_expired(e.expires_at, now))),
                  !.n[t] = 0]
    /\ UNCHANGED <<memory_cache, db_frame, thr_frame>>

\* for key in expired_keys: del self._memory_cache[key]
ThrSweepDel(t) ==
    /\ thr.pc[t] = "sweep_del"
    /\ IF thr.expired_keys[t] = <<>>
       THEN /\ thr' = [thr EXCEPT !.pc[t] = "sweep_disk"]
            /\ UNCHANGED memory_cache
       ELSE IF Head(thr.expired_keys[t]) \in MemKeys(memory_cache)
       THEN /\ memory_cache' = MemDel(memory_cache, Head(thr.expired_keys[t]))
            /\ thr' = [thr EXCEPT !.expired_keys[t] = Tail(@), !.n[t] = @ + 1]
       ELSE /\ thr' = ThrReturns(thr, t, FALSE, None, TRUE)
            /\ UNCHANGED memory_cache
    /\ UNCHANGED <<db_frame, thr_frame>>

\* cache_db.clear_expired_cache and the return of the sum
ThrSweepDisk(t) ==
    /\ thr.pc[t] = "sweep_disk"
    /\ \E order \in Orders(ExpiredRows(Db, now)) :
         LET c == db_clear_expired_cache(Db, open_for(t), now, order)
         IN /\ SetDb(c.db)
            /\ thr' = ThrReturns(thr, t, TRUE, None, FALSE)
    /\ UNCHANGED <<memory_cache, thr_frame>>

TSet == \E t \in Threads, k \in Keys3, ttl \in {-1, 1} : ThrSetCachedData(t, k, Obj("v1"), ttl)
TUpdCheck == \E t \in Threads : ThrUpdCheck(t)
TUpdOldest == \E t \in Threads : ThrUpdOldest(t)
TUpdDel == \E t \in Threads : ThrUpdDel(t)
TUpdInsert == \E t \in Threads : ThrUpdInsert(t)
TSetDisk == \E t \in Threads : ThrSetDisk(t)
TGet == \E t \in Threads, k \in Keys1 : ThrGetCachedData(t, k)
TGetItem == \E t \in Threads : ThrGetItem(t)
TGetDel == \E t \in Threads : ThrGetDel(t)
TGetDisk == \E t \in Threads : ThrGetDisk(t)
TInvalidate == \E t \in Threads, k \in Keys1 : ThrInvalidateCache(t, k)
TInvDel == \E t \in Threads : ThrInvDel(t)
TInvDisk == \E t \in Threads : ThrInvDisk(t)
TSweep == \E t \in Threads : ThrClearExpiredCache(t)
TSweepDel == \E t \in Threads : ThrSweepDel(t)
TSweepDisk == \E t \in Threads : ThrSweepDisk(t)

NextThreads ==
    \/ TSet \/ TUpdCheck \/ TUpdOldest \/ TUpdDel \/ TUpdInsert \/ TSetDisk
    \/ TGet \/ TGetItem \/ TGetDel \/ TGetDisk
    \/ TInvalidate \/ TInvDel \/ TInvDisk
    \/ TSweep \/ TSweepDel \/ TSweepDisk

SpecThreads == InitEvict /\ [][NextThreads]_vars

(***************************************************************************)
(* SpecLog: a caller of the storage layer uses CacheDatabase directly,     *)
(* over one open connection; cache_access_log is the table as that         *)
(* connection reads it.                                                    *)
(***************************************************************************)
\* a caller of the storage layer calls cache_db.get_cached_data(k)
DbGetCachedData(k) ==
    LET g == db_get_cached_data(Db, connection_open, k, now)
    IN /\ SetDb(g.db)
       /\ last' = [NoCall EXCEPT !.op = "db_get", !.key = k, !.ok = g.found,
                                 !.data = IF g.found THEN deserialize(g.row.data) ELSE None]
       /\ UNCHANGED <<now, memory_cache, connection_open, tracked, hist, fifo_run,
                      reg_vars, orch, aux_vars, aside, race, thr>>

\* a caller of the storage layer calls cache_db.delete_cached_data(k)
DbDeleteCachedData(k) ==
    LET d == db_delete_cached_data(Db, connection_open, k)
    IN /\ SetDb(d.db)
       /\ last' = [NoCall EXCEPT !.op = "db_delete", !.key = k, !.ok = d.ok]
       /\ hist' = Idle
       /\ aside' = AsideAfter(k)
       /\ UNCHANGED <<now, memory_cache, connection_open, tracked, fifo_run,
                      reg_vars, orch, aux_vars, race, thr>>

\* a caller of the storage layer calls cache_db.clear_expired_cache()
DbClearExpiredCache ==
    \E order \in Orders(ExpiredRows(Db, now)) :
        LET c == db_clear_expired_cache(Db, connection_open, now, order)
        IN /\ SetDb(c.db)
           /\ last' = [NoCall EXCEPT !.op = "db_sweep", !.ok = TRUE, !.n = c.n]
           /\ hist' = Idle
           /\ aside' = NoAside
           /\ UNCHANGED <<now, memory_cache, connection_open, tracked, fifo_run,
                          reg_vars, orch, aux_vars, race, thr>>

DbSetL == \E k \in Keys2, ttl \in {-1, 1} : DbSetCachedData(k, Obj("v1"), ttl, "NULL")
DbGetL == \E k \in Keys2 : DbGetCachedData(k)
DbDeleteL == \E k \in Keys2 : DbDeleteCachedData(k)

NextLog == DbSetL \/ DbGetL \/ DbDeleteL \/ DbClearExpiredCache

SpecLog == InitEvict /\ [][NextLog]_vars

(***************************************************************************)
(* SpecHealth: the health probes over the registry and the cache           *)
(* database; the metadata database stays connected.                        *)
(***************************************************************************)
\* a caller calls hub.health_check()
HealthCheck ==
    LET r == hub_health_check(data_sources, TRUE, connection_open)
    IN /\ last' = [NoCall EXCEPT !.op = "health_check", !.ok = (r.status = "healthy")]
       /\ UNCHANGED <<cache_vars, reg_vars, orch, aux_vars, aside, race, thr>>

\* a caller calls data_service.is_healthy()
IsHealthy ==
    /\ last' = [NoCall EXCEPT !.op = "is_healthy",
                              !.ok = das_is_healthy(data_sources, connection_open)]
    /\ UNCHANGED <<cache_vars, reg_vars, orch, aux_vars, aside, race, thr>>

(***************************************************************************)
(* SpecFault: the operations of one CacheManager while the database        *)
(* connection may be closed under them.  On a closed                       *)
(* connection every statement of CacheDatabase raises, and each method     *)
(* returns what its except branch returns.                                 *)
(***************************************************************************)
\* CacheDatabase.close()
CloseConnection ==
    /\ connection_open
    /\ connection_open' = FALSE
    /\ uncommitted' = 0
    /\ cache_access_log' = SubSeq(cache_access_log, 1, Len(cache_access_log) - uncommitted)
    /\ last' = [NoCall EXCEPT !.op = "close"]
    /\ hist' = Idle
    /\ fifo_run' = NoRun
    /\ UNCHANGED <<now, memory_cache, cache_entries, tracked, reg_vars, orch, aux_vars, aside, race, thr>>

RefreshF == \E source_id \in {"fred"} : RefreshCache(source_id)
SetF == \E k \in Keys1, v \in {Obj("v1"), Unpicklable}, ttl \in TTLs : SetCachedData(k, v, ttl)

NextFault ==
    \/ Get \/ SetF \/ Invalidate \/ ClearExpiredCache \/ Tick
    \/ RefreshF \/ CloseConnection

SpecFault == Init /\ [][NextFault]_vars

NextHealth == AddSrc \/ UpdStatus \/ HealthCheck \/ IsHealthy \/ CloseConnection

SpecHealth == InitEvict /\ [][NextHealth]_vars

(***************************************************************************)
(* Claims.                                                                  *)
(***************************************************************************)
\* what get_cached_data(k) would return in the current state
GetWouldReturn(k) == cm_get_cached_data(memory_cache, Db, connection_open, k, now).data

\* C1, as stated: get_cached_data returns a value only if now < expiresAt of
\* the entry it is served from; an entry at or past its expiresAt is never
\* returned.
C1_ServedOnlyBeforeExpiry ==
    (last.op = "get" /\ last.data # None) => last.when = "before"

\* C1, amended: get_cached_data returns a value only if now <= expiresAt of
\* the entry it is served from: an entry past its expiresAt is never returned,
\* swept or not; an entry exactly at its expiresAt still is.
C1_NeverServedPastExpiry ==
    (last.op = "get" /\ last.data # None) => last.when \in {"before", "at"}

\* an entry past its expiresAt, still stored in the durable tier (no sweep has
\* removed it), was looked up and not returned
C1_Witness ==
    /\ last.op = "get" /\ last.data = None /\ last.when = "after"
    /\ last.key \in DOMAIN cache_entries
    /\ cache_entries[last.key].expires_at < now

\* C2: set_cached_data(k, v, ttl) returning success, followed by
\* get_cached_data(k) with no operation on k in between and before the ttl
\* elapses, returns exactly v.
C2_SetThenGetReturnsValue ==
    [][(GetCachedData(tracked) /\ hist.state = "fresh" /\ now < hist.exp)
           => last'.data = hist.v]_vars

\* C3: a get of a key whose entry was set and has passed its expiresAt, with
\* no sweep and no invalidate since, returns none and appends a `miss` entry
\* for the key to the access log.
C3_ExpiredGetLogsMiss ==
    [][\A k \in Keys1 :
           (/\ GetCachedData(k)
            /\ k \in DOMAIN cache_entries
            /\ cache_entries[k].expires_at < now
            /\ (k \in MemKeys(memory_cache) => MemItem(memory_cache, k).expires_at < now))
           => /\ last'.data = None
              /\ cache_access_log' =
                     Append(cache_access_log, [cache_key |-> k, access_type |-> "miss"])]_vars

\* C5: after invalidate_cache(k) and with no later set of k, get_cached_data(k)
\* returns none, whichever tiers held k and without any sweep.
C5_InvalidatedKeyMisses ==
    (last.op = "get" /\ last.key = tracked /\ hist.state = "invalidated")
        => last.data = None

\* a key held by both tiers was invalidated and then looked up
C5_Witness ==
    /\ last.op = "get" /\ last.key = tracked /\ last.data = None
    /\ hist.state = "invalidated" /\ hist.held = "both"

\* the last n elements of s
LastN(s, n) == IF Len(s) <= n THEN s ELSE SubSeq(s, Len(s) - n + 1, Len(s))

\* C6: from the empty tier on, while distinct keys are inserted by set and keys
\* are read by get, the volatile tier holds the last N inserted keys in the
\* order of their insertion: the N+1st insertion evicts exactly the first
\* inserted key, read or not.
C6_FifoEviction ==
    fifo_run.valid =>
        MemKeySeq(memory_cache) = LastN(fifo_run.keys, memory_cache_size)

\* N+1 distinct keys were inserted, the first of them was the key read last,
\* and it is the one that is gone
C6_Witness ==
    /\ fifo_run.valid
    /\ Len(fifo_run.keys) = memory_cache_size + 1
    /\ fifo_run.last_read = fifo_run.keys[1]
    /\ fifo_run.keys[1] \notin MemKeys(memory_cache)
    /\ Len(memory_cache) = memory_cache_size

\* C7: a set_cached_data(k, v, ttl) whose two serializers both fail returns
\* failure and leaves k untouched in both tiers: a following get(k) does not
\* return v.
C7_FailedSetLeavesKeyUntouched ==
    (last.op = "set" /\ ~serialize_ok(last.data))
        => (~last.ok /\ GetWouldReturn(last.key) # last.data)

\* C10: invalidate_cache(k) returns true if and only if k was removed from at
\* least one tier.
C10_InvalidateReturnsRemoved ==
    (last.op = "invalidate" /\ last.key = tracked)
        => (last.ok <=> hist.held # "none")

OrchOps == {"get_financial_data", "get_economic_indicators", "get_corporate_data"}

\* C4: when the upstream fetch of get_financial_data, get_economic_indicators
\* or get_corporate_data fails, the operation makes no set_cached_data call
\* and a later get of the request's key returns what it returned before.
C4_FailedFetchLeavesCacheAlone ==
    (last.op \in OrchOps /\ orch.failed)
        => (orch.set_calls = 0 /\ GetWouldReturn(last.key) = orch.before)

\* C8: registering a source whose source_id is already stored returns failure
\* and leaves the stored configuration unchanged, through
\* DataSourceManager.add_source and through MetadataDatabase.save_data_source.
C8_DuplicateRegistrationRejected ==
    [][/\ \A id \in SourceIds, name \in SourceNames, enabled \in BOOLEAN :
              (AddSource(id, name, enabled) /\ id \in DOMAIN data_sources)
                  => /\ ~last'.ok
                     /\ data_sources' = data_sources
                     /\ config_file' = config_file
       /\ \A source_config \in SourceConfigs :
              (/\ SaveDataSource(source_config)
               /\ source_config.source_id \in DOMAIN meta_data_sources)
                  => /\ ~last'.ok
                     /\ meta_data_sources' = meta_data_sources]_vars

\* the sources of an ordered list whose status is active
ActiveOf(sources) ==
    SelectSeq(sources, LAMBDA id : /\ id \in DOMAIN data_sources
                                   /\ data_sources[id].status = "active")

\* C9: a get_financial_data that goes upstream fetches from the first source
\* of the data type's ordered list whose status is active, and ends in a
\* failure result when no listed source is active.
C9_FirstActiveSourceSelected ==
    (last.op = "get_financial_data" /\ orch.source # "cache")
        => LET active == ActiveOf(data_type_mapping(last.key[3]))
           IN IF active # <<>>
              THEN orch.fetched = <<active[1]>>
              ELSE ~last.ok

\* C11: two different request parameter sets (namespace, symbol or indicator
\* list, data type, start date, end date, the dates possibly absent) never get
\* the same cache key.
C11_DistinctRequestsDistinctKeys ==
    (keyq.op = "request" /\ keyq.a # keyq.b) => keyq.key_a # keyq.key_b

\* C12: CacheManager._generate_cache_key returns the same key for the same
\* positional arguments and any two orderings of the same keyword/value pairs.
C12_KeyOrderIndependent ==
    keyq.op = "cache_manager" => keyq.key_a = keyq.key_b

\* three keyword/value pairs given in two different orders got one key
C12_Witness ==
    /\ keyq.op = "cache_manager"
    /\ Len(keyq.a) = 3
    /\ keyq.a # keyq.b
    /\ keyq.key_a = keyq.key_b

\* the keys of the durable entries tagged with source_id
TaggedWith(source_id) ==
    {k \in DOMAIN cache_entries : cache_entries[k].source_id = source_id}

\* C13: refresh_cache(source_id) removes exactly the durable entries tagged
\* with source_id and their volatile copies, leaves every other entry as it
\* was in both tiers, and returns true iff every invalidation succeeded (each
\* of them found its row).
C13_RefreshRemovesExactlyTagged ==
    [][\A source_id \in SourceIds :
           RefreshCache(source_id)
               => /\ cache_entries' = Remove(cache_entries, TaggedWith(source_id))
                  /\ memory_cache' =
                         SelectSeq(memory_cache,
                                   LAMBDA e : e.key \notin TaggedWith(source_id))
                  /\ last'.ok]_vars

\* a refresh removed a tagged entry together with its volatile copy, and an
\* untagged entry is still held by both tiers
C13_Witness ==
    /\ last.op = "refresh" /\ last.ok /\ last.n = 1 /\ last.tier = "both"
    /\ \E k \in Keys2 : /\ k \in MemKeys(memory_cache)
                        /\ k \in DOMAIN cache_entries
                        /\ cache_entries[k].source_id = "NULL"

\* a step of one of the three operations called without force_refresh
NonForcedFetch ==
    \/ \E symbol \in Symbols, data_type \in DataTypes, start_date \in Dates :
           GetFinancialData(symbol, data_type, start_date, NoneArg, FALSE)
    \/ GetEconomicIndicators(<<"GDP", "CPI">>, Str("US"), NoneArg, NoneArg, FALSE)
    \/ \E symbol \in Symbols : GetCorporateData(symbol, <<"profile">>, FALSE)

\* C14: once an operation has cached its result under the key of its
\* request, every later non-forced call with the same key, before the TTL
\* elapses and with no invalidation (nor other write) of the key in between,
\* returns source "cache" with the same data and fetches from no source.
C14_CacheAside ==
    [][(NonForcedFetch /\ aside.on /\ last'.key = aside.key /\ now < aside.exp)
           => /\ last'.ok
              /\ orch'.source = "cache"
              /\ last'.data = aside.data
              /\ orch'.fetched = <<>>]_vars

\* a result cached by an operation, gone from the volatile tier, was
\* served from the durable tier to a later call
C14_Witness ==
    /\ aside.on
    /\ last.op \in OrchOps /\ last.key = aside.key
    /\ orch.source = "cache" /\ last.data = aside.data
    /\ cache_access_log # <<>>
    /\ cache_access_log[Len(cache_access_log)] =
           [cache_key |-> aside.key, access_type |-> "hit"]

\* C15: with two processes on one database, after process A invalidated a
\* key that process B holds in its volatile tier, a get of B returns a value
\* only from that volatile entry and only while it is unexpired; past its
\* expires_at, B's get returns None.
C15_StaleOnlyUntilExpiry ==
    [][\A k \in Keys1 :
           (GetCachedDataB(k) /\ stale.on /\ stale.key = k /\ last'.data # None)
               => /\ last'.data = stale.v
                  /\ last'.tier = "memory"
                  /\ now <= stale.exp]_vars

\* B served the invalidated value from its volatile tier, and after the
\* entry's expiry B's get of the key returned None
C15_Witness ==
    /\ stale.on /\ stale.served
    /\ last.op = "get_B" /\ last.key = stale.key
    /\ now > stale.exp
    /\ last.data = None

\* C16: when the database fails under an operation, the operation answers
\* with its failure value: set_cached_data, invalidate_cache and
\* refresh_cache return False, clear_expired_cache returns 0 and a get that
\* reaches the database returns None.
C16_FailureValues ==
    ~connection_open =>
        /\ (last.op = "get" /\ last.tier # "memory") => last.data = None
        /\ last.op \in {"set", "invalidate", "refresh"} => ~last.ok
        /\ last.op = "sweep" => last.n = 0

\* C17: set_cached_data returns True only if the row was written with the
\* serialized value; while the database fails it returns False, whatever
\* the volatile tier took.
C17_SetOkOnlyIfDurableWrite ==
    last.op = "set" =>
        /\ last.ok => /\ connection_open
                      /\ last.key \in DOMAIN cache_entries
                      /\ cache_entries[last.key].data = serialize(last.data)
        /\ ~connection_open => ~last.ok

\* a set of a serializable value on a closed connection returned False,
\* and the volatile tier holds the value
C17_Witness ==
    /\ last.op = "set" /\ ~last.ok
    /\ ~connection_open
    /\ serialize_ok(last.data)
    /\ last.key \in MemKeys(memory_cache)
    /\ MemItem(memory_cache, last.key).data = last.data

\* C18: get_active_sources returns only sources whose status is "active",
\* never one whose status is "error", "inactive" or "unknown".
C18_ActiveSourcesHaveStatusActive ==
    \A id \in get_active_sources(data_sources) : data_sources[id].status = "active"

\* C19: with the stores answering their probe and a source of status
\* "active" registered, DataHub.health_check returns status "healthy" and
\* DataAccessService.is_healthy returns True.
C19_HealthyWhenStoresUpAndSourceActive ==
    (/\ last.op \in {"health_check", "is_healthy"}
     /\ connection_open
     /\ \E id \in DOMAIN data_sources : /\ data_sources[id].enabled
                                        /\ data_sources[id].status = "active")
        => last.ok

\* the item's key holds the item's value in the durable tier
InDurable(x) ==
    /\ x.key \in DOMAIN cache_entries
    /\ cache_entries[x.key].data = serialize(x.data)
\* the item's key holds the item's value in the volatile tier
InVolatile(x) ==
    /\ x.key \in MemKeys(memory_cache)
    /\ MemItem(memory_cache, x.key).data = x.data

\* C20 as stated: when the set of one key of a batch fails, every other key
\* of the batch whose set succeeded is cached in both tiers.
C20_SucceededKeysStayInBothTiers ==
    (last.op = "batch_set" /\ \E j \in 1..Len(batch_res) : ~batch_res[j].ok)
        => \A i \in 1..Len(batch_res) :
               batch_res[i].ok => InDurable(batch_res[i]) /\ InVolatile(batch_res[i])

\* C20: batch_set_cached_data rolls nothing back: every key whose set
\* succeeded is in the durable tier with its value, whatever happened to
\* the other keys, and in the volatile tier too when it is one of the last
\* two items of the batch (an earlier one may have been evicted by the
\* insertions of later ones into the full tier); the call returns True iff
\* every set succeeded.
C20_BatchSetNotAtomic ==
    last.op = "batch_set" =>
        /\ \A i \in 1..Len(batch_res) :
               batch_res[i].ok =>
                   /\ InDurable(batch_res[i])
                   /\ (i >= Len(batch_res) - 1) => InVolatile(batch_res[i])
        /\ last.ok <=> \A i \in 1..Len(batch_res) : batch_res[i].ok

\* a batch in which one set failed and another succeeded: the call returned
\* False and the key that succeeded is in both tiers
C20_Witness ==
    /\ last.op = "batch_set" /\ ~last.ok
    /\ \E i, j \in 1..Len(batch_res) :
           /\ ~batch_res[j].ok
           /\ batch_res[i].ok
           /\ InDurable(batch_res[i]) /\ InVolatile(batch_res[i])

\* C21: in one process, after any sequence of set, get, invalidate, sweep
\* and batch operations the volatile tier holds at most memory_cache_size
\* entries.
C21_VolatileTierWithinCapacity ==
    Len(memory_cache) <= memory_cache_size

\* a batch set more keys than the tier has room for, all of them with
\* success, and left the tier full
C21_Witness ==
    /\ last.op = "batch_set" /\ last.ok
    /\ last.n > memory_cache_size
    /\ Len(memory_cache) = memory_cache_size

\* C22: an update_source_status of a registered source with status "error"
\* adds exactly 1 to its error_count and any other status resets it to 0, so
\* that error_count > 0 implies status = "error"; no update removes a source
\* or touches another one, and an update for an unregistered source_id
\* changes nothing.
C22_ErrorCountFollowsStatus ==
    /\ [](\A id \in DOMAIN data_sources :
              data_sources[id].error_count > 0 => data_sources[id].status = "error")
    /\ [][\A id \in SourceIds, status \in Statuses :
              UpdateSourceStatus(id, status) =>
                  /\ DOMAIN data_sources' = DOMAIN data_sources
                  /\ \A x \in DOMAIN data_sources \ {id} : data_sources'[x] = data_sources[x]
                  /\ id \in DOMAIN data_sources =>
                         /\ data_sources'[id].status = status
                         /\ data_sources'[id].error_count =
                                IF status = "error" THEN data_sources[id].error_count + 1 ELSE 0
                  /\ id \notin DOMAIN data_sources =>
                         /\ data_sources' = data_sources
                         /\ config_file' = config_file]_vars

\* a registered source has counted two errors in a row, next to a source id
\* that is not registered and whose update was the last call
C22_Witness ==
    /\ last.op = "update_source_status"
    /\ \E id \in DOMAIN data_sources : /\ data_sources[id].error_count > 1
                                       /\ data_sources[id].status = "error"
    /\ \E id \in SourceIds \ DOMAIN data_sources : last.key = <<id>>

\* C23: under every interleaving of two processes' calls on a key, the
\* stored row carries the data, expires_at and data_size of one set, and
\* its access_count is the number of gets that returned this row since the
\* set that wrote it.
C23_AccessCountCountsReturnedHits ==
    \A k \in DOMAIN cache_entries :
        /\ cache_entries[k].data_size = bytes_len(cache_entries[k].data)
        /\ cache_entries[k].access_count = race.returned

\* C24: with two threads of one process on the same CacheManager, under
\* every interleaving of their statements the volatile tier holds at most
\* memory_cache_size entries, and no call ends in its except branch because
\* the other thread removed an entry between this call's check and its
\* delete.
C24_ThreadsSerialized ==
    /\ Len(memory_cache) <= memory_cache_size
    /\ ~thr.ret.raced

\* C25: a sweep of the durable tier appends exactly one expire log entry per
\* key it actually removed and returns the number of keys removed, also
\* when another process sets or deletes keys between the sweep's SELECT and
\* its DELETE.
C25_SweepLogsWhatItRemoved ==
    (race.ret.op = "sweep" /\ race.ret.ok) =>
        /\ race.ret.logged = race.ret.removed
        /\ race.ret.n = Cardinality(race.ret.logged)

\* C26: every durable entry has expires_at after created_at, for every ttl
\* set_cached_data accepts, zero and negative ones included.
C26_ExpiresAfterCreated ==
    \A k \in DOMAIN cache_entries :
        cache_entries[k].expires_at > cache_entries[k].created_at

\* C27: the access log is append-only and complete.  Every step leaves the
\* earlier log as a prefix of the later one; a get, a set and a delete of
\* the storage layer each append exactly one entry for their key, of type
\* hit or miss, set, delete; a sweep appends only expire entries.
LogRow(k, type) == [cache_key |-> k, access_type |-> type]
LogGrowsBy(rows) == cache_access_log' = cache_access_log \o rows
C28_FetchedEntriesTagged ==
    (aside.on /\ aside.key \in DOMAIN cache_entries) =>
        cache_entries[aside.key].source_id # "NULL"

\* C29: a set of a key that is already in the volatile tier only replaces
\* that key's entry: every key cached before is still cached after, also
\* when the tier is at capacity.
C29_OverwriteKeepsOtherKeys ==
    [][\A k \in Keys3, ttl \in {-1, 1} :
          (SetCachedData(k, Obj("v1"), ttl) /\ k \in MemKeys(memory_cache)) =>
              MemKeys(memory_cache) \subseteq MemKeys(memory_cache')]_vars

\* C30: when a CacheDatabase operation has returned, all its writes, its
\* access-log entry included, are committed: a process that is in no call
\* holds no open write transaction and has no uncommitted log row.
C30_NoOpenTransactionAtReturn ==
    \A p \in Procs :
        race.pc[p] = "idle" => (race.lock # p /\ race.unc[p] = <<>>)

====
